---------------------------- MODULE Spec2Model ----------------------------
(***************************************************************************)
(* A model of drivers/net/virtio/virtio_user/vhost_user.c: the vhost-user  *)
(* control-plane client of the virtio-user device (message transport,      *)
(* hugepage file discovery, request dispatch, connection setup and the     *)
(* queue-pair enable helper).                                              *)
(*                                                                         *)
(* The program is single threaded.  One call is in progress at a time; pc  *)
(* is the position of that call.  System calls are the environment: each   *)
(* returns one of the outcomes the kernel can produce.                     *)
(***************************************************************************)
EXTENDS Integers, Sequences, FiniteSets, TLC

(***************************************************************************)
(* Program constants                                                       *)
(***************************************************************************)
VHOST_USER_VERSION == 1
VHOST_MEMORY_MAX_NREGIONS == 8
VHOST_USER_VERSION_MASK == 3
VHOST_USER_REPLY_MASK == 4
VHOST_USER_VRING_IDX_MASK == 255
VHOST_USER_VRING_NOFD_MASK == 256
MAX_VIRTIO_USER_BACKLOG == 1

\* sizeof of the payload variants (struct vhost_user_msg is packed)
SizeofU64 == 8
SizeofVringState == 8
SizeofVringAddr == 40
SizeofMemoryRegion == 32
SizeofNregions == 4
SizeofPadding == 4

\* sizeof(struct vhost_memory)
SizeofMemory ==
  SizeofNregions + SizeofPadding + VHOST_MEMORY_MAX_NREGIONS * SizeofMemoryRegion

Max2(a, b) == IF a >= b THEN a ELSE b

\* sizeof(msg->payload): the union is as large as its largest member
SizeofPayload ==
  Max2(Max2(SizeofU64, SizeofVringState), Max2(SizeofVringAddr, SizeofMemory))

\* offsetof(struct vhost_user_msg, payload.u64): request, flags, size
VHOST_USER_HDR_SIZE == 4 + 4 + 4

(***************************************************************************)
(* Bounds of the model                                                     *)
(***************************************************************************)
\* size of the process descriptor table: open() fails (EMFILE) when full
FdLimit == 14
\* how many times in a row sendmsg may be interrupted
MaxEintr == 2
\* the largest pair index handed to the queue-pair helper
MaxPair == 2

(***************************************************************************)
(* 32-bit unsigned values.  A uint32_t is kept as its top bit and its low  *)
(* 31 bits, so that values with the top bit set are representable.         *)
(***************************************************************************)
Int31Max == 2147483647

U32(n) == [hi |-> 0, lo |-> n]
U32Top(n) == [hi |-> 1, lo |-> n]

\* int x = (uint32_t)u: the two's complement reading of the same 32 bits
ToInt(u) == IF u.hi = 1 THEN (u.lo - Int31Max) - 1 ELSE u.lo

\* (size_t)i > n for an int i and a small n: a negative i converts to a
\* value above 2^31
SizeTGreater(i, n) == IF i < 0 THEN TRUE ELSE i > n

\* u > n as unsigned values, n < 2^31
U32Greater(u, n) == u.hi = 1 \/ u.lo > n


(***************************************************************************)
(* Memory region discovery: get_hugepage_file_info                         *)
(*                                                                         *)
(* A path is a sequence of one-character strings.  A line of               *)
(* /proc/self/maps is [parsed, v_start, v_end, path]: parsed is the number *)
(* of addresses sscanf converted, path the last column without newline.    *)
(***************************************************************************)
Digits == {"0", "1", "2", "3", "4", "5", "6", "7", "8", "9"}

\* strrchr(tmp, c) as an index into tmp[1..n], 0 when c does not occur
RECURSIVE LastIndexOf(_, _, _)
LastIndexOf(s, c, n) ==
  IF n = 0 THEN 0
  ELSE IF s[n] = c THEN n
  ELSE LastIndexOf(s, c, n - 1)

\* sscanf(..., "%d") converts: white space, an optional sign, then a digit
RECURSIVE ScansInt(_, _)
ScansInt(s, i) ==
  IF i > Len(s) THEN FALSE
  ELSE IF s[i] = " " THEN ScansInt(s, i + 1)
  ELSE IF s[i] \in {"+", "-"} THEN i + 1 <= Len(s) /\ s[i + 1] \in Digits
  ELSE s[i] \in Digits

\* the HUGEFILE_FMT match: the last '_' is preceded by "map" and followed
\* by an integer
MatchesHugefile(tmp) ==
  LET str_underline == LastIndexOf(tmp, "_", Len(tmp))
      str_start == str_underline - 3
  IN  /\ str_underline # 0
      /\ str_start >= 1
      /\ tmp[str_start] = "m"
      /\ tmp[str_start + 1] = "a"
      /\ tmp[str_start + 2] = "p"
      /\ ScansInt(tmp, str_underline + 1)

\* a search that looks at the newest record only
ExistIndexNewest(huges, path) ==
  IF huges # <<>> /\ huges[Len(huges)].path = path THEN Len(huges) - 1
  ELSE -1

\* the index k of the record holding this path, -1 when there is none
ExistIndex(huges, path) ==
  IF \E k \in 1..Len(huges) : huges[k].path = path
  THEN (CHOOSE k \in 1..Len(huges) :
          /\ huges[k].path = path
          /\ \A j \in 1..(k - 1) : huges[j].path # path) - 1
  ELSE -1

\* a limit that lets one record too many in
LimitReachedAfter(idx, max) == idx > max
\* if (idx >= max)
LimitReached(idx, max) == idx >= max

\* the while loop over the lines, from line n on
RECURSIVE ScanMaps(_, _, _, _)
ScanMaps(lines, n, huges, max) ==
  IF n > Len(lines) THEN [error |-> FALSE, huges |-> huges]
  ELSE
    LET l == lines[n] IN
    IF l.parsed < 2 THEN [error |-> TRUE, huges |-> huges]
    ELSE IF ~MatchesHugefile(l.path) THEN ScanMaps(lines, n + 1, huges, max)
    ELSE IF ExistIndex(huges, l.path) >= 0
      THEN ScanMaps(lines, n + 1, huges, max)
    ELSE IF LimitReached(Len(huges), max)
      THEN [error |-> TRUE, huges |-> huges]
    ELSE ScanMaps(lines, n + 1,
                  Append(huges, [addr |-> l.v_start,
                                 size |-> l.v_end - l.v_start,
                                 path |-> l.path]),
                  max)

\* the size correction: st_size where stat succeeds, unchanged where not
\* (stat_size[path] < 0 stands for a failed stat)
CorrectSizes(huges, stat_size) ==
  [k \in 1..Len(huges) |->
     IF stat_size[huges[k].path] < 0 THEN huges[k]
     ELSE [huges[k] EXCEPT !.size = stat_size[huges[k].path]]]

\* after the while loop: goto error, or the size correction and return idx
AfterScan(scan, stat_size) ==
  IF scan.error THEN [ret |-> -1, huges |-> scan.huges]
  ELSE [ret |-> Len(scan.huges),
        huges |-> CorrectSizes(scan.huges, stat_size)]

\* get_hugepage_file_info(huges, max): ret is idx or -1.  proc is the
\* environment: whether /proc/self/maps opens, its lines, and stat()
GetHugepageFileInfo(proc, max) ==
  IF ~proc.can_open THEN [ret |-> -1, huges |-> <<>>]
  ELSE AfterScan(ScanMaps(proc.lines, 1, <<>>, max), proc.stat_size)

(***************************************************************************)
(* The process descriptor table                                            *)
(***************************************************************************)
\* the lowest free descriptor, -1 when the table is full
LowestFree(open) ==
  IF \E fd \in 0..(FdLimit - 1) : fd \notin open
  THEN CHOOSE fd \in 0..(FdLimit - 1) :
         fd \notin open /\ \A g \in 0..(fd - 1) : g \in open
  ELSE -1

\* open(path, O_RDWR): fails for a path that cannot be opened and when the
\* table is full
OpenFile(open, path, no_open) ==
  IF path \in no_open THEN -1 ELSE LowestFree(open)


(***************************************************************************)
(* Messages.  The payload union is kept as the sequence of 32-bit words it *)
(* holds in memory (host byte order, low word of a uint64_t first); each   *)
(* variant is laid out by its own operator.                                *)
(***************************************************************************)
\* uint64_t with value n < 2^31
U64(n) == <<n, 0>>

\* struct vhost_vring_state { unsigned int index; unsigned int num; }
StateWords(st) == <<st.index, st.num>>

\* struct vhost_vring_addr
AddrWords(a) ==
  <<a.index, a.flags>> \o a.desc_user_addr \o a.used_user_addr
    \o a.avail_user_addr \o a.log_guest_addr

\* struct vhost_memory_region
RegionWords(mr) ==
  mr.guest_phys_addr \o mr.memory_size \o mr.userspace_addr \o mr.mmap_offset

RECURSIVE RegionsWords(_)
RegionsWords(regions) ==
  IF regions = <<>> THEN <<>>
  ELSE RegionWords(Head(regions)) \o RegionsWords(Tail(regions))

\* struct vhost_memory, up to the regions in use
MemoryWords(mem) == <<mem.nregions, mem.padding>> \o RegionsWords(mem.regions)

\* region i (from 1) of a memory table held as words
RegionAt(words, i) ==
  LET b == 2 + 8 * (i - 1) IN
  [guest_phys_addr |-> SubSeq(words, b + 1, b + 2),
   memory_size     |-> SubSeq(words, b + 3, b + 4),
   userspace_addr  |-> SubSeq(words, b + 5, b + 6),
   mmap_offset     |-> SubSeq(words, b + 7, b + 8)]

\* word i of the payload; a word never written reads as 0
PayloadWord(words, i) == IF i <= Len(words) THEN words[i] ELSE 0

\* the local struct vhost_user_msg msg of vhost_user_sock before it is built
NoMsg == [request |-> "none", flags |-> 0, size |-> U32(0), payload |-> <<>>]

(***************************************************************************)
(* prepare_vhost_memory_user                                               *)
(***************************************************************************)
\* a region with guest_phys_addr left 0
MakeRegionPhysZero(h) ==
  [guest_phys_addr |-> U64(0),
   userspace_addr  |-> U64(h.addr),
   memory_size     |-> U64(h.size),
   mmap_offset     |-> U64(0)]
\* the region written for one record (lines 242-246)
MakeRegion(h) ==
  [guest_phys_addr |-> U64(h.addr),
   userspace_addr  |-> U64(h.addr),
   memory_size     |-> U64(h.size),
   mmap_offset     |-> U64(0)]

\* the for loop from region i on: fills the regions and opens the files.
\* opened lists the open() calls: the path and the descriptor returned
RECURSIVE PrepareRegions(_, _, _, _, _, _)
PrepareRegions(huges, i, regions, opened, open, no_open) ==
  IF i > Len(huges)
  THEN [regions |-> regions, opened |-> opened,
        fds |-> [k \in 1..Len(opened) |-> opened[k].fd], open |-> open]
  ELSE
    LET fd == OpenFile(open, huges[i].path, no_open) IN
    PrepareRegions(huges, i + 1, Append(regions, MakeRegion(huges[i])),
                   Append(opened, [path |-> huges[i].path, fd |-> fd]),
                   IF fd >= 0 THEN open \cup {fd} ELSE open, no_open)

\* the end of prepare_vhost_memory_user: nregions, padding, return 0
PrepareDone(info, p) ==
  [ret |-> 0, huges |-> info.huges,
   payload |-> MemoryWords([nregions |-> info.ret, padding |-> 0,
                            regions |-> p.regions]),
   fds |-> p.fds, opened |-> p.opened, open |-> p.open]

\* prepare_vhost_memory_user from the result info of the discovery on
PrepareFrom(info, open, no_open) ==
  IF info.ret < 0
  THEN [ret |-> -1, huges |-> info.huges, payload |-> <<>>, fds |-> <<>>,
        opened |-> <<>>, open |-> open]
  ELSE PrepareDone(info,
                   PrepareRegions(info.huges, 1, <<>>, <<>>, open, no_open))

\* prepare_vhost_memory_user(&msg, fds) with the descriptor table open
PrepareVhostMemoryUser(proc, open) ==
  PrepareFrom(GetHugepageFileInfo(proc, VHOST_MEMORY_MAX_NREGIONS), open,
              proc.no_open)


(***************************************************************************)
(* vhost_user_sock: building the request (the switch on req)               *)
(***************************************************************************)
ScalarRequests == {"VHOST_USER_SET_FEATURES", "VHOST_USER_SET_LOG_BASE"}
EmptyRequests == {"VHOST_USER_SET_OWNER", "VHOST_USER_RESET_OWNER"}
StateRequests ==
  {"VHOST_USER_SET_VRING_NUM", "VHOST_USER_SET_VRING_BASE",
   "VHOST_USER_SET_VRING_ENABLE"}
FileRequests ==
  {"VHOST_USER_SET_VRING_KICK", "VHOST_USER_SET_VRING_CALL",
   "VHOST_USER_SET_VRING_ERR"}
ReplyRequests == {"VHOST_USER_GET_FEATURES", "VHOST_USER_GET_VRING_BASE"}

\* the request kinds the switch has a case for
SupportedRequests ==
  ScalarRequests \cup EmptyRequests \cup StateRequests \cup FileRequests
    \cup ReplyRequests
    \cup {"VHOST_USER_SET_MEM_TABLE", "VHOST_USER_SET_LOG_FD",
          "VHOST_USER_SET_VRING_ADDR"}

\* v & mask for a mask of the form 2^k - 1
AndLowMask(v, mask) == v % (mask + 1)

\* v | bit for a single-bit mask
OrBit(v, bit) == IF (v \div bit) % 2 = 1 THEN v ELSE v + bit

\* whether bit (a single-bit mask) is set in v
HasBit(v, bit) == (v \div bit) % 2 = 1

\* the same test taking descriptor 0 for a descriptor
FileHasFdFromZero(file) == file.fd >= 0
\* if (file->fd > 0)
FileHasFd(file) == file.fd > 0

\* case VHOST_USER_SET_VRING_KICK / CALL / ERR
VringFileCase(file) ==
  LET idx == AndLowMask(file.index, VHOST_USER_VRING_IDX_MASK) IN
  IF FileHasFd(file)
  THEN [payload |-> <<idx, 0>>, fds |-> <<file.fd>>]
  ELSE [payload |-> <<OrBit(idx, VHOST_USER_VRING_NOFD_MASK), 0>>,
        fds |-> <<>>]

\* the size of the whole struct vhost_memory, whatever fd_num is
MemTableSizeFull(fd_num) == SizeofMemory
\* msg.size of the memory table with fd_num regions
MemTableSize(fd_num) ==
  SizeofNregions + SizeofPadding + fd_num * SizeofMemoryRegion

\* case VHOST_USER_SET_MEM_TABLE, p the result of prepare_vhost_memory_user
MemTableCase(m0, p) ==
  IF p.ret < 0
  THEN [ret |-> -1, msg |-> m0, fds |-> <<>>, need_reply |-> FALSE,
        open |-> p.open, huges |-> p.huges, opened |-> p.opened]
  ELSE [ret |-> 0,
        msg |-> [m0 EXCEPT !.payload = p.payload,
                           !.size = U32(MemTableSize(p.payload[1]))],
        fds |-> SubSeq(p.fds, 1, p.payload[1]), need_reply |-> FALSE,
        open |-> p.open, huges |-> p.huges, opened |-> p.opened]

\* lines 293-358: ret = -1 where the function returns before the send.
\* a is the argument, proc the environment of the discovery, open the
\* descriptor table
BuildRequest(r, a, proc, open) ==
  LET m0 == [request |-> r, flags |-> VHOST_USER_VERSION, size |-> U32(0),
             payload |-> <<>>]
      plain(m, reply) ==
        [ret |-> 0, msg |-> m, fds |-> <<>>, need_reply |-> reply,
         open |-> open, huges |-> <<>>, opened |-> <<>>]
  IN
  CASE r = "VHOST_USER_GET_FEATURES" -> plain(m0, TRUE)
    [] r \in ScalarRequests ->
         plain([m0 EXCEPT !.payload = a.w, !.size = U32(SizeofU64)], FALSE)
    [] r \in EmptyRequests -> plain(m0, FALSE)
    [] r = "VHOST_USER_SET_MEM_TABLE" ->
         MemTableCase(m0, PrepareVhostMemoryUser(proc, open))
    [] r = "VHOST_USER_SET_LOG_FD" ->
         [plain(m0, FALSE) EXCEPT !.fds = <<a.v>>]
    [] r \in StateRequests ->
         plain([m0 EXCEPT !.payload = StateWords(a),
                          !.size = U32(SizeofVringState)], FALSE)
    [] r = "VHOST_USER_GET_VRING_BASE" ->
         plain([m0 EXCEPT !.payload = StateWords(a),
                          !.size = U32(SizeofVringState)], TRUE)
    [] r = "VHOST_USER_SET_VRING_ADDR" ->
         plain([m0 EXCEPT !.payload = AddrWords(a),
                          !.size = U32(SizeofVringAddr)], FALSE)
    [] r \in FileRequests ->
         LET f == VringFileCase(a) IN
         [plain([m0 EXCEPT !.payload = f.payload, !.size = U32(SizeofU64)],
                FALSE) EXCEPT !.fds = f.fds]
    [] OTHER ->
         [ret |-> -1, msg |-> m0, fds |-> <<>>, need_reply |-> FALSE,
          open |-> open, huges |-> <<>>, opened |-> <<>>]


(***************************************************************************)
(* vhost_user_read: header validation; vhost_user_sock: reply handling     *)
(***************************************************************************)
\* valid_flags = VHOST_USER_REPLY_MASK | VHOST_USER_VERSION
ValidFlags == OrBit(VHOST_USER_VERSION, VHOST_USER_REPLY_MASK)

\* a test of the reply bit and the version bits alone
FlagsOkMasked(flags) ==
  /\ HasBit(flags, VHOST_USER_REPLY_MASK)
  /\ AndLowMask(flags, VHOST_USER_VERSION_MASK) = VHOST_USER_VERSION
\* msg->flags != (valid_flags) does not hold
FlagsOk(flags) == flags = ValidFlags

\* the comparison without the cast to size_t
PayloadTooLargeSigned(sz_payload) == sz_payload > SizeofPayload
\* a test that turns a payload of the full size away
PayloadTooLargeInclusive(sz_payload) ==
  sz_payload < 0 \/ sz_payload >= SizeofPayload
\* (size_t)sz_payload > sizeof(msg->payload)
PayloadTooLarge(sz_payload) == SizeTGreater(sz_payload, SizeofPayload)

\* the reply handling with the copy made before the size is checked
AfterReplyCopyFirst(r, m, a) ==
  LET copied ==
        IF r = "VHOST_USER_GET_FEATURES"
        THEN [t |-> "u64",
              w |-> <<PayloadWord(m.payload, 1), PayloadWord(m.payload, 2)>>]
        ELSE [t |-> "state", index |-> PayloadWord(m.payload, 1),
              num |-> PayloadWord(m.payload, 2)]
      want == IF r = "VHOST_USER_GET_FEATURES" THEN SizeofU64
              ELSE SizeofVringState
  IN IF r # m.request THEN [ret |-> -1, arg |-> a]
     ELSE IF m.size # U32(want) THEN [ret |-> -1, arg |-> copied]
     ELSE [ret |-> 0, arg |-> copied]
\* lines 378-405, after vhost_user_read returned 0: the return value and
\* the caller's argument
AfterReply(r, m, a) ==
  IF r # m.request THEN [ret |-> -1, arg |-> a]
  ELSE
    CASE r = "VHOST_USER_GET_FEATURES" ->
           IF m.size # U32(SizeofU64) THEN [ret |-> -1, arg |-> a]
           ELSE [ret |-> 0,
                 arg |-> [t |-> "u64",
                          w |-> <<PayloadWord(m.payload, 1),
                                  PayloadWord(m.payload, 2)>>]]
      [] r = "VHOST_USER_GET_VRING_BASE" ->
           IF m.size # U32(SizeofVringState) THEN [ret |-> -1, arg |-> a]
           ELSE [ret |-> 0,
                 arg |-> [t |-> "state",
                          index |-> PayloadWord(m.payload, 1),
                          num |-> PayloadWord(m.payload, 2)]]
      [] OTHER -> [ret |-> -1, arg |-> a]

(***************************************************************************)
(* State                                                                   *)
(***************************************************************************)
VARIABLES
  dev,         \* struct virtio_user_dev: is_server, vhostfd, listenfd
  open,        \* the process descriptor table: the open descriptors
  owned,       \* descriptors prepare_vhost_memory_user opened, still open
  setups,      \* calls of vhost_user_setup so far
  su,          \* what the last vhost_user_setup did
  pc,          \* position of the call in progress
  call,        \* the function the owner called
  req,         \* vhost_user_sock: req
  arg,         \* the memory arg points to
  arg0,        \* that memory when vhost_user_sock was entered
  msg,         \* vhost_user_sock: msg
  fds,         \* vhost_user_sock: fds[0..fd_num-1]
  need_reply,  \* vhost_user_sock: need_reply
  len,         \* vhost_user_sock: len
  ret,         \* return value of vhost_user_sock
  proc,        \* /proc/self/maps and the files, as this call finds them
  huges,       \* the records of get_hugepage_file_info in this call
  io,          \* the system calls of this vhost_user_sock call
  qp,          \* vhost_user_enable_queue_pair: its locals and its calls
  disc         \* a call of get_hugepage_file_info: arguments and result

vars ==
  <<dev, open, owned, setups, su, disc, pc, call, req, arg, arg0, msg, fds,
    need_reply, len, ret, proc, huges, io, qp>>

sockVars == <<req, arg, arg0, msg, fds, need_reply, len, ret, proc, huges, io>>

\* no environment read yet
NoProc == [can_open |-> FALSE, lines |-> <<>>, stat_size |-> <<>>,
           no_open |-> {}]

NoArg == [t |-> "null"]

\* nothing handed to sendmsg yet
NoHanded == [msg |-> NoMsg, len |-> 0, fds |-> <<>>]

\* the system calls of one vhost_user_sock call, before any was made
IoNone ==
  [sendmsg |-> 0,          \* calls of sendmsg
   eintr |-> 0,            \* of which interrupted
   wr |-> "none",          \* vhost_user_write: "none", "error", "short", "full"
   r |-> 0,                \* its return value
   handed |-> NoHanded,    \* what it was given
   recv |-> 0,             \* calls of recv
   read |-> "none",        \* vhost_user_read: "none", "ok", "fail"
   hdr_ret |-> 0,          \* return value of the header recv
   pay_calls |-> 0,        \* calls of recv for the payload
   pay_ret |-> 0,          \* return value of the payload recv
   opened |-> <<>>,        \* calls of open: the path, the descriptor
   closed |-> {},          \* descriptors closed
   writes |-> 0,           \* calls of vhost_user_write
   open0 |-> {}]           \* the descriptors open when the call began

\* calls lists the vhost_user_sock calls made: request, argument, result
QpNone == [pair_idx |-> 0, enable |-> 0, i |-> 0, ret |-> 0, calls |-> <<>>]

SuNone == [ret |-> 0, fd |-> -1, sockets |-> 0, binds |-> 0, listens |-> 0,
           connects |-> 0, closed |-> FALSE]

\* no call of get_hugepage_file_info on its own
DiscNone == [pc |-> "none", proc |-> NoProc, max |-> 0, ret |-> 0,
             huges |-> <<>>]


(***************************************************************************)
(* The inputs of the model: arguments, /proc/self/maps tables, replies     *)
(***************************************************************************)
\* a descriptor the owner holds open (an eventfd, the log file)
CallerFd == 3
\* st_size of every hugepage file
FileSize == 64
\* the extent of one mapping
MapExtent == 16
\* the lines of a table in a call of get_hugepage_file_info on its own
MaxLines == 4
\* the largest limit such a call is given
MaxLimit == 3

HugeDigits == <<"0", "1", "2", "3", "4", "5", "6", "7", "8">>
HugePath(i) == <<"/", "h", "/", "r", "t", "e", "m", "a", "p", "_", HugeDigits[i]>>
LibPath == <<"/", "l", "i", "b", "_", "c">>

MapLine(start, path) ==
  [parsed |-> 2, v_start |-> start, v_end |-> start + MapExtent, path |-> path]
UnparsedLine == [parsed |-> 0, v_start |-> 0, v_end |-> 0, path |-> <<>>]

\* n mappings of n distinct hugepage files
DistinctFiles(n) == [i \in 1..n |-> MapLine(MapExtent * i, HugePath(i))]

MapsTables ==
  { <<MapLine(0, LibPath)>>,
    <<MapLine(0, LibPath), MapLine(MapExtent, HugePath(1)),
      MapLine(2 * MapExtent, HugePath(1)), MapLine(3 * MapExtent, HugePath(2))>>,
    <<MapLine(MapExtent, HugePath(1)), UnparsedLine>>,
    Append(DistinctFiles(VHOST_MEMORY_MAX_NREGIONS),
           MapLine(0, HugePath(VHOST_MEMORY_MAX_NREGIONS))),
    DistinctFiles(VHOST_MEMORY_MAX_NREGIONS + 1) }

PathsOf(lines) == {lines[i].path : i \in 1..Len(lines)}

ProcSamples ==
  {[can_open |-> FALSE, lines |-> <<>>, stat_size |-> <<>>, no_open |-> {}]}
  \cup
  {[can_open |-> TRUE, lines |-> t,
    stat_size |-> [q \in PathsOf(t) |-> IF q \in ns THEN -1 ELSE FileSize],
    no_open |-> no] :
     t \in MapsTables, ns \in {{}, {HugePath(1)}}, no \in {{}, {HugePath(2)}}}

\* the lines a table of the discovery runs is made of: two mappings of
\* one hugepage file, one each of two more, a library, a line sscanf
\* cannot read
DiscLines ==
  {MapLine(MapExtent, HugePath(1)), MapLine(2 * MapExtent, HugePath(1)),
   MapLine(3 * MapExtent, HugePath(2)), MapLine(4 * MapExtent, HugePath(3)),
   MapLine(0, LibPath), UnparsedLine}

\* the tables of up to MaxLines lines
DiscTables == UNION {[1..n -> DiscLines] : n \in 0..MaxLines}

\* the environments of the discovery runs: stat fails for the files in ns
DiscProcs ==
  {[can_open |-> FALSE, lines |-> <<>>, stat_size |-> <<>>, no_open |-> {}]}
  \cup
  {[can_open |-> TRUE, lines |-> t,
    stat_size |-> [q \in PathsOf(t) |-> IF q \in ns THEN -1 ELSE FileSize],
    no_open |-> {}] :
     t \in DiscTables, ns \in {{}, {HugePath(1)}}}

U64Arg(lo, hi) == [t |-> "u64", w |-> <<lo, hi>>]
StateArg(i, n) == [t |-> "state", index |-> i, num |-> n]
FileArg(i, fd) == [t |-> "file", index |-> i, fd |-> fd]
AddrArg ==
  [t |-> "addr", index |-> 1, flags |-> 0, desc_user_addr |-> <<4096, 0>>,
   used_user_addr |-> <<8192, 0>>, avail_user_addr |-> <<12288, 0>>,
   log_guest_addr |-> <<0, 0>>]

ArgSamples(r) ==
  CASE r = "VHOST_USER_GET_FEATURES" -> {U64Arg(7, 0)}
    [] r \in ScalarRequests -> {U64Arg(5, 1)}
    [] r = "VHOST_USER_SET_LOG_FD" -> {[t |-> "int", v |-> CallerFd]}
    [] r \in StateRequests -> {StateArg(1, 256)}
    [] r = "VHOST_USER_GET_VRING_BASE" -> {StateArg(1, 0)}
    [] r = "VHOST_USER_SET_VRING_ADDR" -> {AddrArg}
    [] r \in FileRequests ->
         {FileArg(i, fd) : i \in {3, 259}, fd \in {-1, 0, CallerFd}}
    [] OTHER -> {NoArg}

\* a request kind the switch has no case for
UnsupportedRequests == {"VHOST_USER_GET_PROTOCOL_FEATURES"}

FlagSamples == {1, 4, 5, 6, 13}
SizeSamples ==
  {U32(0), U32(SizeofU64), U32(SizeofPayload), U32(SizeofPayload + 1),
   U32Top(0), U32Top(SizeofU64), U32Top(Int31Max)}

\* the headers a peer may answer req with
ReplyHeaders(r) ==
  {[request |-> q, flags |-> f, size |-> z] :
     q \in ReplyRequests, f \in FlagSamples, z \in SizeSamples}

\* n words of reply payload
ReplyWords(n) == [i \in 1..n |-> 8 + i]

\* bytes the peer has queued behind the header
PeerBacklog == 2 * SizeofPayload


(***************************************************************************)
(* vhost_user_sock                                                         *)
(***************************************************************************)
SeqRange(q) == {q[i] : i \in 1..Len(q)}

\* vhost_user_sock returns rv, leaving a in the caller's argument
SockReturns(rv, a) ==
  /\ pc' = "sock_ret"
  /\ ret' = rv
  /\ arg' = a

\* a test that lets every call through
NotConnectedNever(d) == FALSE
\* if (dev->is_server && vhostfd < 0)
NotConnected(d) == d.is_server /\ d.vhostfd < 0

\* vhost_user_sock(dev, r, &a) is entered and runs up to the send
\* (lines 284-360); p is the environment the discovery reads
SockEntry(r, a, p) ==
  /\ req' = r
  /\ arg0' = a
  /\ proc' = p
  /\ IF NotConnected(dev)
     THEN /\ SockReturns(-1, a)
          /\ msg' = NoMsg
          /\ fds' = <<>>
          /\ need_reply' = FALSE
          /\ len' = 0
          /\ huges' = <<>>
          /\ io' = [IoNone EXCEPT !.open0 = open]
          /\ UNCHANGED <<open, owned>>
     ELSE \E b \in {BuildRequest(r, a, p, open)} :
          LET n == VHOST_USER_HDR_SIZE + ToInt(b.msg.size)
          IN /\ msg' = b.msg
             /\ fds' = b.fds
             /\ need_reply' = b.need_reply
             /\ huges' = b.huges
             /\ open' = b.open
             /\ owned' = owned \cup (b.open \ open)
             /\ IF b.ret < 0
                THEN /\ SockReturns(-1, a)
                     /\ len' = 0
                     /\ io' = [IoNone EXCEPT !.opened = b.opened,
                                             !.open0 = open]
                ELSE /\ pc' = "write"
                     /\ ret' = 0
                     /\ arg' = a
                     /\ len' = n
                     /\ io' = [IoNone EXCEPT
                                 !.handed = [msg |-> b.msg, len |-> n,
                                             fds |-> b.fds],
                                 !.opened = b.opened,
                                 !.writes = 1,
                                 !.open0 = open]

\* sendmsg(fd, &msgh, 0): what the kernel may answer.  A descriptor that is
\* not open, as the socket or in the SCM_RIGHTS data, is EBADF; otherwise
\* the call is interrupted, fails, or takes some or all of the bytes
SendmsgOutcomes ==
  IF dev.vhostfd \notin open \/ \E i \in 1..Len(fds) : fds[i] \notin open
  THEN {[r |-> -1, errno |-> "EBADF"]}
  ELSE (IF io.eintr < MaxEintr THEN {[r |-> -1, errno |-> "EINTR"]} ELSE {})
       \cup {[r |-> -1, errno |-> "EPIPE"]}
       \cup {[r |-> n, errno |-> "none"] : n \in {1, len - 1, len}}

\* a loop that never repeats
WriteLoopAgainNever(o) == FALSE
\* while (r < 0 && errno == EINTR)
WriteLoopAgain(o) == o.r < 0 /\ o.errno = "EINTR"

\* a send whose failure is not looked at
WriteFailedNever(r, n) == FALSE
\* if (vhost_user_write(...) < 0)
WriteFailed(r, n) == r < 0

\* descriptors closed whatever the request
ClosedAfterSendAlways(r, f) == SeqRange(f)
\* the descriptors closed after the send (lines 367-369)
ClosedAfterSend(r, f) ==
  IF r = "VHOST_USER_SET_MEM_TABLE" THEN SeqRange(f) ELSE {}

\* one turn of the do-while loop of vhost_user_write and, when the loop
\* ends, vhost_user_sock up to the receive (lines 76-80, 361-371)
Sendmsg ==
  /\ pc = "write"
  /\ \E o \in SendmsgOutcomes :
       LET io1 == [io EXCEPT !.sendmsg = @ + 1,
                             !.eintr = IF o.errno = "EINTR" THEN @ + 1 ELSE @,
                             !.r = o.r,
                             !.wr = IF o.r < 0 THEN o.errno
                                    ELSE IF o.r < len THEN "short" ELSE "full"]
       IN
       IF WriteLoopAgain(o)
       THEN /\ io' = io1
            /\ UNCHANGED <<dev, open, owned, setups, su, disc, pc, call, req, arg,
                           arg0, msg, fds, need_reply, len, ret, proc, huges,
                           qp>>
       ELSE IF WriteFailed(o.r, len)
       THEN /\ io' = io1
            /\ SockReturns(-1, arg)
            /\ UNCHANGED <<dev, open, owned, setups, su, disc, call, req, arg0, msg,
                           fds, need_reply, len, proc, huges, qp>>
       ELSE LET shut == ClosedAfterSend(req, fds) IN
            /\ io' = [io1 EXCEPT !.closed = shut]
            /\ open' = open \ shut
            /\ owned' = owned \ shut
            /\ IF need_reply
               THEN /\ pc' = "read_hdr"
                    /\ UNCHANGED <<ret, arg>>
               ELSE SockReturns(0, arg)
            /\ UNCHANGED <<dev, setups, su, disc, call, req, arg0, msg, fds,
                           need_reply, len, proc, huges, qp>>

\* the first n words of old replaced by new
Overlay(old, new) ==
  [i \in 1..Max2(Len(old), Len(new)) |->
     IF i <= Len(new) THEN new[i] ELSE old[i]]

\* a header taken as whole whenever recv did not fail
HeaderShortOnError(n) == n < 0
\* if (ret < sz_hdr)
HeaderShort(n) == n < VHOST_USER_HDR_SIZE

\* a payload taken as whole whatever recv returned
PayloadShortNever(n, sz_payload) == FALSE
\* if (ret < sz_payload)
PayloadShort(n, sz_payload) == n < sz_payload

\* recv wrote the first n bytes of the header h over the message m
HeaderInto(m, h, n) ==
  [m EXCEPT !.request = IF n >= 4 THEN h.request ELSE @,
            !.flags = IF n >= 4 + 4 THEN h.flags ELSE @,
            !.size = IF n >= VHOST_USER_HDR_SIZE THEN h.size ELSE @]

\* recv of the header and the checks that follow (lines 89-108); when
\* vhost_user_read returns here, vhost_user_sock runs on to its return
RecvHeader ==
  /\ pc = "read_hdr"
  /\ \E n \in {-1, 0, VHOST_USER_HDR_SIZE - 4, VHOST_USER_HDR_SIZE} :
     \E h \in IF n <= 0 THEN {NoMsg} ELSE ReplyHeaders(req) :
       LET io1 == [io EXCEPT !.recv = @ + 1, !.hdr_ret = n]
           m == HeaderInto(msg, h, n)
           sz_payload == ToInt(m.size)
       IN
       /\ msg' = m
       /\ IF HeaderShort(n)
          THEN /\ io' = [io1 EXCEPT !.read = "fail"]
               /\ SockReturns(-1, arg)
          ELSE IF ~FlagsOk(m.flags) \/ PayloadTooLarge(sz_payload)
          THEN /\ io' = [io1 EXCEPT !.read = "fail"]
               /\ SockReturns(-1, arg)
          ELSE IF sz_payload # 0
          THEN /\ io' = io1
               /\ pc' = "read_payload"
               /\ UNCHANGED <<ret, arg>>
          ELSE LET done == AfterReply(req, m, arg) IN
               /\ io' = [io1 EXCEPT !.read = "ok"]
               /\ SockReturns(done.ret, done.arg)
  /\ UNCHANGED <<dev, open, owned, setups, su, disc, call, req, arg0, fds,
                 need_reply, len, proc, huges, qp>>

\* what recv may return when asked for sz_payload bytes; as a size_t a
\* negative sz_payload asks for more than the peer has queued
PayloadRecvReturns(sz_payload) ==
  IF sz_payload < 0 THEN {-1, PeerBacklog}
  ELSE {n \in {-1, 0, sz_payload - 1, sz_payload} : n >= -1}

\* recv of the payload (lines 109-118) and vhost_user_sock to its return
RecvPayload ==
  /\ pc = "read_payload"
  /\ LET sz_payload == ToInt(msg.size) IN
     \E n \in PayloadRecvReturns(sz_payload) :
       LET io1 == [io EXCEPT !.recv = @ + 1, !.pay_calls = @ + 1,
                             !.pay_ret = n]
           got == IF n > 0 THEN ReplyWords(n \div 4) ELSE <<>>
           m == [msg EXCEPT !.payload = Overlay(@, got)]
       IN
       /\ msg' = m
       /\ IF PayloadShort(n, sz_payload)
          THEN /\ io' = [io1 EXCEPT !.read = "fail"]
               /\ SockReturns(-1, arg)
          ELSE LET done == AfterReply(req, m, arg) IN
               /\ io' = [io1 EXCEPT !.read = "ok"]
               /\ SockReturns(done.ret, done.arg)
  /\ UNCHANGED <<dev, open, owned, setups, su, disc, call, req, arg0, fds,
                 need_reply, len, proc, huges, qp>>


(***************************************************************************)
(* vhost_user_read on bytes that are all queued: the message comes back as *)
(* the words of its header and payload                                     *)
(***************************************************************************)
\* the message m as it lies in memory: header, then payload
MsgWords(m) == <<m.request, m.flags, m.size>> \o m.payload

\* the first n bytes of m, which vhost_user_write hands to sendmsg
WireOf(m, n) ==
  [i \in 1..(n \div 4) |->
     IF i <= 3 + Len(m.payload) THEN MsgWords(m)[i] ELSE 0]

\* the same bytes with the reply bit set in flags, as a peer answers
AsReply(w) == [w EXCEPT ![2] = OrBit(@, VHOST_USER_REPLY_MASK)]

\* recv(fd, buf, k, 0) on a socket holding the words w: what is there, up
\* to k bytes
RecvTakes(w, k) == IF k < 0 \/ k > 4 * Len(w) THEN 4 * Len(w) ELSE k

\* the read of the payload (lines 109-118)
ReadPayload(m, w, sz_payload, n) ==
  [ret |-> IF PayloadShort(n, sz_payload) THEN -1 ELSE 0,
   msg |-> [m EXCEPT !.payload = Overlay(@, SubSeq(w, 1, n \div 4))],
   hdr_ret |-> VHOST_USER_HDR_SIZE, pay_calls |-> 1, pay_ret |-> n]

\* the checks of the header in m (lines 95-108); w is what follows it
ReadChecked(m, w, sz_payload) ==
  IF ~FlagsOk(m.flags) \/ PayloadTooLarge(sz_payload)
  THEN [ret |-> -1, msg |-> m, hdr_ret |-> VHOST_USER_HDR_SIZE,
        pay_calls |-> 0, pay_ret |-> 0]
  ELSE IF sz_payload # 0
  THEN ReadPayload(m, w, sz_payload, RecvTakes(w, sz_payload))
  ELSE [ret |-> 0, msg |-> m, hdr_ret |-> VHOST_USER_HDR_SIZE,
        pay_calls |-> 0, pay_ret |-> 0]

\* the header words of w as a header
HeaderOf(w) ==
  [request |-> IF Len(w) >= 1 THEN w[1] ELSE "none",
   flags |-> IF Len(w) >= 2 THEN w[2] ELSE 0,
   size |-> IF Len(w) >= 3 THEN w[3] ELSE U32(0)]

\* the read of the header (lines 89-93), n what recv returned
ReadHeader(m, w, n) ==
  IF HeaderShort(n)
  THEN [ret |-> -1, msg |-> HeaderInto(m, HeaderOf(w), n), hdr_ret |-> n,
        pay_calls |-> 0, pay_ret |-> 0]
  ELSE ReadChecked(HeaderInto(m, HeaderOf(w), n), SubSeq(w, 4, Len(w)),
                   ToInt(HeaderOf(w).size))

\* vhost_user_read(fd, &m) with the words w queued on fd
VhostUserRead(m, w) == ReadHeader(m, w, RecvTakes(w, VHOST_USER_HDR_SIZE))

\* the bytes of the request come back to vhost_user_read, as they were
\* sent or marked as a reply
Loopback ==
  /\ pc = "write"
  /\ \E mark \in BOOLEAN :
     \E rd \in {VhostUserRead(NoMsg, IF mark THEN AsReply(WireOf(msg, len))
                                     ELSE WireOf(msg, len))} :
       /\ pc' = IF mark THEN "reply_ret" ELSE "loop_ret"
       /\ msg' = rd.msg
       /\ ret' = rd.ret
       /\ io' = [io EXCEPT !.recv = 1 + rd.pay_calls,
                           !.read = IF rd.ret = 0 THEN "ok" ELSE "fail",
                           !.hdr_ret = rd.hdr_ret,
                           !.pay_calls = rd.pay_calls,
                           !.pay_ret = rd.pay_ret]
  /\ UNCHANGED <<dev, open, owned, setups, su, disc, call, req, arg, arg0,
                 fds, need_reply, len, proc, huges, qp>>


(***************************************************************************)
(* vhost_user_setup and virtio_user_start_server                           *)
(***************************************************************************)
\* virtio_user_start_server: bind, then listen; env tells which succeed
StartServer(env) ==
  IF ~env.bind THEN [ret |-> -1, binds |-> 1, listens |-> 0]
  ELSE IF ~env.listen THEN [ret |-> -1, binds |-> 1, listens |-> 1]
  ELSE [ret |-> 0, binds |-> 1, listens |-> 1]

\* vhost_user_setup(d) with the descriptor table op
VhostUserSetup(d, op, env) ==
  LET fd == IF env.socket THEN LowestFree(op) ELSE -1 IN
  IF fd < 0
  THEN [ret |-> -1, dev |-> d, open |-> op,
        su |-> [SuNone EXCEPT !.ret = -1, !.sockets = 1]]
  ELSE IF d.is_server
  THEN LET d1 == [d EXCEPT !.listenfd = fd]
           srv == StartServer(env)
           su1 == [SuNone EXCEPT !.fd = fd, !.sockets = 1,
                                 !.binds = srv.binds, !.listens = srv.listens]
       IN IF srv.ret < 0
          THEN [ret |-> -1, dev |-> d1, open |-> op,
                su |-> [su1 EXCEPT !.ret = -1, !.closed = TRUE]]
          ELSE [ret |-> 0, dev |-> [d1 EXCEPT !.vhostfd = -1],
                open |-> op \cup {fd}, su |-> su1]
  ELSE LET su1 == [SuNone EXCEPT !.fd = fd, !.sockets = 1, !.connects = 1]
       IN IF ~env.connect
          THEN [ret |-> -1, dev |-> d, open |-> op,
                su |-> [su1 EXCEPT !.ret = -1, !.closed = TRUE]]
          ELSE [ret |-> 0, dev |-> [d EXCEPT !.vhostfd = fd],
                open |-> op \cup {fd}, su |-> su1]

\* the owner calls ops_user.setup, once for a device
Setup ==
  /\ pc = "idle"
  /\ setups = 0
  /\ \E env \in [socket : BOOLEAN, bind : BOOLEAN, listen : BOOLEAN,
                 connect : BOOLEAN] :
       LET s == VhostUserSetup(dev, open, env) IN
       /\ dev' = s.dev
       /\ open' = s.open
       /\ su' = s.su
  /\ setups' = setups + 1
  /\ UNCHANGED <<owned, pc, call, qp, disc>>
  /\ UNCHANGED sockVars

\* in server mode the owner accepts the peer on the listening socket and
\* stores the connection in dev->vhostfd
Accept ==
  /\ pc = "idle"
  /\ dev.is_server
  /\ setups > 0
  /\ su.ret = 0
  /\ dev.listenfd \in open
  /\ dev.vhostfd < 0
  /\ LowestFree(open) >= 0
  /\ dev' = [dev EXCEPT !.vhostfd = LowestFree(open)]
  /\ open' = open \cup {LowestFree(open)}
  /\ UNCHANGED <<owned, setups, su, disc, pc, call, qp>>
  /\ UNCHANGED sockVars

(***************************************************************************)
(* The owner's calls of ops_user.send_request and ops_user.enable_qp       *)
(***************************************************************************)
\* the owner calls vhost_user_sock
CallSock ==
  /\ pc = "idle"
  /\ call' = "sock"
  /\ \E r \in SupportedRequests \cup UnsupportedRequests :
     \E a \in ArgSamples(r) :
     \E p \in IF r = "VHOST_USER_SET_MEM_TABLE" THEN ProcSamples ELSE {NoProc} :
       SockEntry(r, a, p)
  /\ UNCHANGED <<dev, setups, su, disc, qp>>

\* .index of the state sent for half i of the pair
QpIndex(pair_idx, i) == pair_idx * 2 + i

\* a loop that carries on after a failed call
QpCallFailedNever(rv) == FALSE
\* if (vhost_user_sock(...)) return -1
QpCallFailed(rv) == rv # 0

\* the owner calls vhost_user_enable_queue_pair(dev, p, e)
CallEnableQueuePair ==
  /\ pc = "idle"
  /\ \E p \in 0..MaxPair, e \in {0, 1} :
       qp' = [QpNone EXCEPT !.pair_idx = p, !.enable = e]
  /\ call' = "enable_qp"
  /\ pc' = "qp_loop"
  /\ UNCHANGED <<dev, open, owned, setups, su, disc>>
  /\ UNCHANGED sockVars

\* the head of the for loop: the next call of vhost_user_sock, or return 0
QpLoop ==
  /\ pc = "qp_loop"
  /\ IF qp.i < 2
     THEN LET state == [t |-> "state", index |-> QpIndex(qp.pair_idx, qp.i),
                        num |-> qp.enable]
          IN /\ SockEntry("VHOST_USER_SET_VRING_ENABLE", state, NoProc)
             /\ UNCHANGED qp
     ELSE /\ qp' = [qp EXCEPT !.ret = 0]
          /\ pc' = "qp_ret"
          /\ UNCHANGED <<open, owned>>
          /\ UNCHANGED sockVars
  /\ UNCHANGED <<dev, setups, su, disc, call>>

\* vhost_user_sock returned into the loop
QpAfterSock ==
  /\ pc = "sock_ret"
  /\ call = "enable_qp"
  /\ LET made == Append(qp.calls, [req |-> req, arg |-> arg0, ret |-> ret])
     IN IF QpCallFailed(ret)
        THEN /\ qp' = [qp EXCEPT !.ret = -1, !.calls = made]
             /\ pc' = "qp_ret"
        ELSE /\ qp' = [qp EXCEPT !.i = @ + 1, !.calls = made]
             /\ pc' = "qp_loop"
  /\ UNCHANGED <<dev, open, owned, setups, su, disc, call>>
  /\ UNCHANGED sockVars

\* the call returns to the owner; its locals are gone
ReturnToOwner ==
  /\ \/ pc = "sock_ret" /\ call = "sock"
     \/ pc = "qp_ret"
  /\ pc' = "idle"
  /\ call' = "none"
  /\ req' = "none"
  /\ arg' = NoArg
  /\ arg0' = NoArg
  /\ msg' = NoMsg
  /\ fds' = <<>>
  /\ need_reply' = FALSE
  /\ len' = 0
  /\ ret' = 0
  /\ proc' = NoProc
  /\ huges' = <<>>
  /\ io' = IoNone
  /\ qp' = QpNone
  /\ UNCHANGED <<dev, open, owned, setups, su, disc>>

(***************************************************************************)
(* The specification                                                       *)
(***************************************************************************)
Init ==
  /\ dev \in {[is_server |-> s, vhostfd |-> -1, listenfd |-> -1] :
                s \in BOOLEAN}
  /\ open = 0..CallerFd
  /\ owned = {}
  /\ setups = 0
  /\ su = SuNone
  /\ pc = "idle"
  /\ call = "none"
  /\ req = "none"
  /\ arg = NoArg
  /\ arg0 = NoArg
  /\ msg = NoMsg
  /\ fds = <<>>
  /\ need_reply = FALSE
  /\ len = 0
  /\ ret = 0
  /\ proc = NoProc
  /\ huges = <<>>
  /\ io = IoNone
  /\ qp = QpNone
  /\ disc = DiscNone

Next ==
  \/ Setup
  \/ Accept
  \/ CallSock
  \/ CallEnableQueuePair
  \/ QpLoop
  \/ QpAfterSock
  \/ Sendmsg
  \/ RecvHeader
  \/ RecvPayload
  \/ ReturnToOwner

Spec == Init /\ [][Next]_vars

\* vhost_user_sock builds and sends; what it sent is read back
LoopbackNext ==
  \/ CallSock
  \/ Loopback

LoopbackSpec == Init /\ [][LoopbackNext]_vars

\* get_hugepage_file_info(huges, max) is called and returns
Discover ==
  /\ disc.pc = "call"
  /\ \E info \in {GetHugepageFileInfo(disc.proc, disc.max)} :
       disc' = [disc EXCEPT !.pc = "ret", !.ret = info.ret,
                            !.huges = info.huges]
  /\ UNCHANGED <<dev, open, owned, setups, su, pc, call, qp>>
  /\ UNCHANGED sockVars

\* the call is about to be made, on any table and with any limit
DiscInit ==
  /\ dev = [is_server |-> FALSE, vhostfd |-> -1, listenfd |-> -1]
  /\ open = 0..CallerFd
  /\ owned = {}
  /\ setups = 0
  /\ su = SuNone
  /\ pc = "idle"
  /\ call = "none"
  /\ req = "none"
  /\ arg = NoArg
  /\ arg0 = NoArg
  /\ msg = NoMsg
  /\ fds = <<>>
  /\ need_reply = FALSE
  /\ len = 0
  /\ ret = 0
  /\ proc = NoProc
  /\ huges = <<>>
  /\ io = IoNone
  /\ qp = QpNone
  /\ disc \in {[pc |-> "call", proc |-> p, max |-> n, ret |-> 0,
                 huges |-> <<>>] : p \in DiscProcs, n \in 0..MaxLimit}

DiscSpec == DiscInit /\ [][Discover]_vars

\* every call in progress keeps running: the program is never suspended
\* for ever
FairSpec == Spec /\ WF_vars(Next)


(***************************************************************************)
(* Properties                                                              *)
(***************************************************************************)
\* vhost_user_sock has returned and its result is there to see
Returned == pc = "sock_ret"

\* C1: every descriptor the dispatcher opened from a region's backing file
\* is closed by the time the dispatch returns, on success and on failure;
\* between dispatches none of them is open.
C1_OpenedClosedOnReturn == pc \in {"sock_ret", "idle"} => owned = {}

\* C2: a get-features or get-vring-base dispatch that returns failure leaves
\* the caller's argument as it was before the call; the argument holds the
\* reply payload only when the dispatch returns success.
C2_OutputWrittenOnlyOnSuccess ==
  (Returned /\ req \in ReplyRequests) =>
    /\ ret # 0 => arg = arg0
    /\ ret = 0 =>
         /\ io.read = "ok"
         /\ msg.request = req
         /\ msg.size = U32(8)
         /\ arg = IF req = "VHOST_USER_GET_FEATURES"
                  THEN U64Arg(msg.payload[1], msg.payload[2])
                  ELSE StateArg(msg.payload[1], msg.payload[2])

\* a get-features reply of the right kind and the wrong size was received
C2_Witness ==
  /\ Returned
  /\ req = "VHOST_USER_GET_FEATURES"
  /\ io.read = "ok"
  /\ msg.request = req
  /\ msg.size # U32(8)
  /\ ret = -1
  /\ arg = arg0

\* C3: dispatch returns success only if the send wrote the complete
\* message (header size plus declared payload size).
C3_IncompleteSendFails ==
  (Returned /\ ret = 0) => (io.wr = "full" /\ io.r = io.handed.len)

\* C4, in every state: the value vhost_user_write returns is never that of
\* an interrupted sendmsg, and sendmsg was called once more than it was
\* interrupted; recv is called once for the header and at most once for the
\* payload, and a failed recv ends the call; every file is opened once;
\* socket, bind, listen and connect are each called at most once per setup.
C4_OnlyInterruptedSendRetried ==
  /\ (pc # "write" /\ io.sendmsg > 0) =>
       (io.wr # "EINTR" /\ io.sendmsg = io.eintr + 1)
  /\ pc = "write" => io.sendmsg = io.eintr
  /\ io.pay_calls <= 1
  /\ io.recv - io.pay_calls <= 1
  /\ (io.recv > 0 /\ io.hdr_ret < 12) =>
       (io.recv = 1 /\ Returned /\ ret = -1)
  /\ (io.pay_calls = 1 /\ io.pay_ret < 0) => (Returned /\ ret = -1)
  /\ Len(io.opened) <= Len(huges)
  /\ \A i \in 1..Len(io.opened) : io.opened[i].path = huges[i].path
  /\ su.sockets <= 1 /\ su.binds <= 1 /\ su.listens <= 1 /\ su.connects <= 1

\* C4: the send retries sendmsg every time it is interrupted (EINTR) and
\* returns only a non-interrupted outcome; when interruptions do not recur
\* for ever the send returns; no other operation is retried.
C4_SendRetriesUntilNotInterrupted ==
  /\ []C4_OnlyInterruptedSendRetried
  /\ (pc = "write") ~> (pc # "write")

\* a send that was interrupted as often as the model allows, then succeeded
C4_Witness ==
  /\ Returned
  /\ io.eintr = MaxEintr
  /\ io.sendmsg = MaxEintr + 1
  /\ io.wr = "full"
  /\ ret = 0

\* C5: receive fails and reads no payload byte whenever the declared size
\* exceeds 8 + 8 * 32, for every 32-bit value, top bit set included; for a
\* size within the maximum it reads at most that many payload bytes.
C5_OversizeRejectedBeforePayload ==
  /\ (io.hdr_ret = 12 /\ U32Greater(msg.size, 8 + 8 * 32)) =>
       /\ Returned
       /\ ret = -1
       /\ io.read = "fail"
       /\ io.pay_calls = 0
       /\ io.recv = 1
  /\ io.pay_calls > 0 =>
       /\ msg.size.hi = 0
       /\ msg.size.lo <= 8 + 8 * 32
       /\ io.pay_ret <= msg.size.lo

\* a reply with valid flags whose size has the top bit set was rejected
C5_Witness ==
  /\ Returned
  /\ io.hdr_ret = 12
  /\ msg.flags = 5
  /\ msg.size = U32Top(8)
  /\ io.read = "fail"
  /\ io.pay_calls = 0
  /\ ret = -1

\* C6: receive succeeds only if the flags of the received header are
\* exactly 0x5 (reply bit | version 1); for every other value it fails
\* before reading any payload byte.
C6_FlagsMustBeExact ==
  /\ io.read = "ok" => msg.flags = 5
  /\ (io.hdr_ret = 12 /\ msg.flags # 5) =>
       /\ Returned
       /\ ret = -1
       /\ io.read = "fail"
       /\ io.pay_calls = 0
       /\ io.recv = 1

\* a reply with reply bit, version 1 and one more bit set was rejected
C6_Witness ==
  /\ Returned
  /\ io.hdr_ret = 12
  /\ msg.flags = 13
  /\ msg.size = U32(8)
  /\ io.read = "fail"
  /\ ret = -1

\* the size the payload variant of request kind r has, words being the
\* payload sent
C7_VariantSize(r, words) ==
  CASE r \in {"VHOST_USER_GET_FEATURES", "VHOST_USER_SET_OWNER",
              "VHOST_USER_RESET_OWNER", "VHOST_USER_SET_LOG_FD"} -> 0
    [] r \in {"VHOST_USER_SET_FEATURES", "VHOST_USER_SET_LOG_BASE",
              "VHOST_USER_SET_VRING_KICK", "VHOST_USER_SET_VRING_CALL",
              "VHOST_USER_SET_VRING_ERR"} -> 8
    [] r \in {"VHOST_USER_SET_VRING_NUM", "VHOST_USER_SET_VRING_BASE",
              "VHOST_USER_SET_VRING_ENABLE", "VHOST_USER_GET_VRING_BASE"} ->
         SizeofVringState
    [] r = "VHOST_USER_SET_VRING_ADDR" -> SizeofVringAddr
    [] r = "VHOST_USER_SET_MEM_TABLE" -> 8 + 32 * words[1]

\* C7: the message dispatch hands to the transport has request = the
\* requested kind, flags = version 1 without the reply bit, a size field
\* equal to the byte length of the kind's payload variant, and is
\* 12 + size bytes long.
C7_SentSizeIsVariantSize ==
  io.handed # NoHanded =>
    LET h == io.handed
        want == C7_VariantSize(req, h.msg.payload)
    IN /\ req \in SupportedRequests
       /\ h.msg.request = req
       /\ h.msg.flags = 1
       /\ h.msg.size = U32(want)
       /\ 4 * Len(h.msg.payload) = want
       /\ h.len = 12 + want
       /\ pc = "write" => (msg = h.msg /\ len = h.len /\ fds = h.fds)

\* a memory table of two regions is about to be sent
C7_Witness ==
  /\ pc = "write"
  /\ req = "VHOST_USER_SET_MEM_TABLE"
  /\ io.handed.msg.payload[1] = 2
  /\ io.handed.len = 12 + 8 + 64

\* C8: for set-vring-kick, -call and -err the low 8 bits of the scalar are
\* the ring index masked to 8 bits; with a valid (positive) descriptor in
\* the argument exactly that descriptor is attached and bit 8 is clear,
\* otherwise no descriptor is attached and bit 8 is set; never both, never
\* neither.
C8_VringFileDescriptorOrNoFdBit ==
  (req \in FileRequests /\ io.handed # NoHanded) =>
    LET h == io.handed
        v == h.msg.payload
        nofd == (v[1] \div 256) % 2 = 1
    IN /\ Len(v) = 2
       /\ v[2] = 0
       /\ v[1] % 256 = arg0.index % 256
       /\ v[1] \div 512 = 0
       /\ arg0.fd > 0 => (h.fds = <<arg0.fd>> /\ ~nofd)
       /\ arg0.fd <= 0 => (h.fds = <<>> /\ nofd)
       /\ (Len(h.fds) = 1) # nofd
       /\ Len(h.fds) <= 1

\* a kick with ring index 259 and an open eventfd is about to be sent
C8_Witness ==
  /\ pc = "write"
  /\ req = "VHOST_USER_SET_VRING_KICK"
  /\ arg0 = FileArg(259, CallerFd)
  /\ io.handed.fds = <<CallerFd>>
  /\ io.handed.msg.payload = <<3, 0>>

\* C9: the queue-pair helper issues set-vring-enable for ring 2p, then for
\* ring 2p + 1, each with value e, and nothing else; a call is issued only
\* when every call before it succeeded; the helper returns success exactly
\* when two calls were made and both succeeded, and failure right after
\* the call that failed.
C9_PairEnabledInOrder ==
  call = "enable_qp" =>
    LET c == qp.calls IN
    /\ Len(c) <= 2
    /\ \A k \in 1..Len(c) :
         /\ c[k].req = "VHOST_USER_SET_VRING_ENABLE"
         /\ c[k].arg = StateArg(2 * qp.pair_idx + (k - 1), qp.enable)
    /\ \A k \in 1..(Len(c) - 1) : c[k].ret = 0
    /\ pc \in {"write", "read_hdr", "read_payload", "sock_ret"} =>
         /\ req = "VHOST_USER_SET_VRING_ENABLE"
         /\ arg0 = StateArg(2 * qp.pair_idx + qp.i, qp.enable)
         /\ qp.i < 2
         /\ Len(c) = qp.i
    /\ pc = "qp_ret" =>
         /\ Len(c) >= 1
         /\ qp.ret = 0 <=> (Len(c) = 2 /\ c[1].ret = 0 /\ c[2].ret = 0)
         /\ qp.ret = -1 <=> c[Len(c)].ret # 0

\* pair 2 was enabled, the first call succeeded and the second failed
C9_Witness ==
  /\ pc = "qp_ret"
  /\ qp.pair_idx = 2
  /\ qp.enable = 1
  /\ qp.ret = -1
  /\ Len(qp.calls) = 2
  /\ qp.calls[1].arg = StateArg(4, 1)
  /\ qp.calls[2].arg = StateArg(5, 1)

\* C10: a set-mem-table dispatch that returns success has sent a table of
\* n <= 8 regions with n descriptors, descriptor i opened from the backing
\* file of region i, region i with guest_physical_address =
\* userspace_address = the recorded virtual address and mmap_offset 0; when
\* the open of a backing file fails the dispatch returns failure and no
\* message with an invalid descriptor is sent.
C10_MemTableSentWhole ==
  (Returned /\ req = "VHOST_USER_SET_MEM_TABLE") =>
    /\ ret = 0 =>
         LET h == io.handed
             n == h.msg.payload[1]
         IN /\ io.wr \in {"short", "full"}
            /\ n <= 8
            /\ n = Len(huges)
            /\ Len(h.fds) = n
            /\ Len(io.opened) = n
            /\ \A i \in 1..n :
                 /\ io.opened[i].path = huges[i].path
                 /\ io.opened[i].fd = h.fds[i]
                 /\ h.fds[i] >= 0
                 /\ \A j \in 1..n : h.fds[i] = h.fds[j] => i = j
                 /\ RegionAt(h.msg.payload, i).guest_phys_addr
                      = <<huges[i].addr, 0>>
                 /\ RegionAt(h.msg.payload, i).userspace_addr
                      = <<huges[i].addr, 0>>
                 /\ RegionAt(h.msg.payload, i).mmap_offset = <<0, 0>>
    /\ (\E i \in 1..Len(io.opened) : io.opened[i].fd < 0) =>
         (ret = -1 /\ io.wr \notin {"short", "full"})

\* a memory table of 8 regions was sent
C10_Witness ==
  /\ Returned
  /\ req = "VHOST_USER_SET_MEM_TABLE"
  /\ ret = 0
  /\ io.wr = "full"
  /\ Len(huges) = 8
  /\ Len(io.handed.fds) = 8


(***************************************************************************)
(* The discovery on its own                                                *)
(***************************************************************************)
\* get_hugepage_file_info has returned
DiscReturned == disc.pc = "ret"

\* the lines of the table whose path is a hugepage file's
C11_Matching(lines) ==
  {i \in 1..Len(lines) : lines[i].parsed >= 2 /\ MatchesHugefile(lines[i].path)}

\* the first line of the table that names path
C11_FirstLine(lines, path) ==
  CHOOSE i \in 1..Len(lines) :
    /\ lines[i].path = path
    /\ \A j \in 1..(i - 1) : lines[j].path # path

\* C11: the discovery never records a path twice, whatever the table.  When
\* it succeeds there is exactly one record for each distinct matching path,
\* the records stand in the order the paths were first seen, and each holds
\* the start address of the first line that names its path.
C11_OneRecordPerPath ==
  DiscReturned =>
    /\ \A j, k \in 1..Len(disc.huges) :
         j # k => disc.huges[j].path # disc.huges[k].path
    /\ disc.ret >= 0 =>
         /\ disc.ret = Len(disc.huges)
         /\ {disc.huges[k].path : k \in 1..Len(disc.huges)}
              = {disc.proc.lines[i].path : i \in C11_Matching(disc.proc.lines)}
         /\ \A k \in 1..Len(disc.huges) :
              disc.huges[k].addr =
                disc.proc.lines[C11_FirstLine(disc.proc.lines,
                                              disc.huges[k].path)].v_start
         /\ \A j, k \in 1..Len(disc.huges) :
              j < k => C11_FirstLine(disc.proc.lines, disc.huges[j].path)
                         < C11_FirstLine(disc.proc.lines, disc.huges[k].path)

\* a file mapped twice, with another file's line in between, and two records
C11_Witness ==
  /\ DiscReturned
  /\ disc.ret = 2
  /\ \E i, j \in C11_Matching(disc.proc.lines) :
       /\ i + 1 < j
       /\ disc.proc.lines[i].path = disc.proc.lines[j].path
       /\ disc.proc.lines[i].v_start # disc.proc.lines[j].v_start
       /\ disc.proc.lines[i + 1].path = disc.huges[2].path

\* the distinct paths of hugepage files in the table
C12_MatchingPaths(lines) == {lines[i].path : i \in C11_Matching(lines)}

\* every line of the table was read by sscanf
C12_AllParse(lines) == \A i \in 1..Len(lines) : lines[i].parsed >= 2

\* C12: with limit N, on a table that opens and whose lines all parse, the
\* discovery fails exactly when the table holds more than N distinct
\* matching paths; with N or fewer it returns that many records, duplicate
\* lines after the N-th record included.  It never writes a record at index
\* N or beyond.
C12_FailsOnlyBeyondLimit ==
  DiscReturned =>
    /\ Len(disc.huges) <= disc.max
    /\ (disc.proc.can_open /\ C12_AllParse(disc.proc.lines)) =>
         /\ disc.ret < 0 <=>
              Cardinality(C12_MatchingPaths(disc.proc.lines)) > disc.max
         /\ disc.ret >= 0 =>
              /\ disc.ret = Cardinality(C12_MatchingPaths(disc.proc.lines))
              /\ Len(disc.huges) = disc.ret

\* the table is full and a further line names the file of the last record
C12_Witness ==
  /\ DiscReturned
  /\ disc.max > 0
  /\ disc.ret = disc.max
  /\ C12_AllParse(disc.proc.lines)
  /\ disc.proc.lines[Len(disc.proc.lines)].path = disc.huges[disc.max].path
  /\ C11_FirstLine(disc.proc.lines, disc.huges[disc.max].path)
       < Len(disc.proc.lines)

\* C13: when the discovery succeeds, the size of every record is the length
\* stat reported for its file, never the extent of the mapping, a file whose
\* stat fails included.
C13_SizeIsStatSize ==
  (DiscReturned /\ disc.ret >= 0) =>
    \A k \in 1..Len(disc.huges) :
      /\ disc.proc.stat_size[disc.huges[k].path] >= 0
      /\ disc.huges[k].size = disc.proc.stat_size[disc.huges[k].path]


(***************************************************************************)
(* What vhost_user_sock sends, read back by vhost_user_read                *)
(***************************************************************************)
\* C14 as the claim states it: for every message the dispatch encodes and
\* sends, vhost_user_read on the same bytes succeeds and yields the same
\* request kind, flags, size and payload.
C14_RoundTrip ==
  pc = "loop_ret" =>
    /\ io.read = "ok"
    /\ msg.request = io.handed.msg.request
    /\ msg.flags = io.handed.msg.flags
    /\ msg.size = io.handed.msg.size
    /\ msg.payload = io.handed.msg.payload

\* C14, amended: for every message the dispatch encodes and sends,
\* vhost_user_read on the same bytes reads the same request kind, flags and
\* size from the header and then fails without reading the payload, because
\* a request carries no reply bit in its flags; on the same bytes with only
\* the reply bit added to the flags it succeeds and yields the same request
\* kind, size and payload.
C14_RoundTripAsReply ==
  /\ pc = "loop_ret" =>
       /\ io.read = "fail"
       /\ io.hdr_ret = VHOST_USER_HDR_SIZE
       /\ io.pay_calls = 0
       /\ msg.request = io.handed.msg.request
       /\ msg.flags = io.handed.msg.flags
       /\ msg.size = io.handed.msg.size
  /\ pc = "reply_ret" =>
       /\ io.read = "ok"
       /\ msg.request = io.handed.msg.request
       /\ msg.flags = OrBit(io.handed.msg.flags, VHOST_USER_REPLY_MASK)
       /\ msg.size = io.handed.msg.size
       /\ msg.payload = io.handed.msg.payload

\* a memory table of the full eight regions came back whole
C14_Witness ==
  /\ pc = "reply_ret"
  /\ req = "VHOST_USER_SET_MEM_TABLE"
  /\ io.read = "ok"
  /\ ToInt(msg.size) = SizeofPayload
  /\ 4 * Len(msg.payload) = SizeofPayload


(***************************************************************************)
(* The order of send and receive in vhost_user_sock                        *)
(***************************************************************************)
\* vhost_user_write returned without an error
C15_SendWentThrough == io.writes = 1 /\ io.wr \in {"short", "full"}

C16_HeaderReads == io.recv - io.pay_calls

\* C16: vhost_user_read makes exactly one read for the header and at most
\* one for the payload, and never loops.  A header read that returns fewer
\* than 12 bytes, zero and a negative result included, fails the receive with
\* no payload read; a payload read that returns fewer bytes than the header
\* declares fails it; a declared size of 0 means no payload read, and success
\* once the header is validated.
C16_ReceiveReadsOnce ==
  /\ C16_HeaderReads \in {0, 1}
  /\ io.pay_calls \in {0, 1}
  /\ io.read # "none" => C16_HeaderReads = 1
  /\ (io.recv > 0 /\ io.hdr_ret < VHOST_USER_HDR_SIZE) =>
       /\ io.read = "fail"
       /\ io.pay_calls = 0
       /\ Returned
       /\ ret = -1
  /\ (io.pay_calls = 1 /\ io.pay_ret < ToInt(msg.size)) =>
       /\ io.read = "fail"
       /\ Returned
       /\ ret = -1
  /\ (io.recv > 0 /\ io.hdr_ret = VHOST_USER_HDR_SIZE /\ msg.size = U32(0)) =>
       /\ io.pay_calls = 0
       /\ io.read = "ok" <=> msg.flags = ValidFlags
  /\ io.read = "ok" =>
       \/ msg.size = U32(0) /\ io.pay_calls = 0
       \/ io.pay_calls = 1 /\ io.pay_ret = ToInt(msg.size)

\* a header came short with the flags of a reply in it, and the receive
\* failed with one read
C16_Witness ==
  /\ Returned
  /\ io.recv = 1
  /\ io.hdr_ret > 0
  /\ io.hdr_ret < VHOST_USER_HDR_SIZE
  /\ msg.flags = ValidFlags
  /\ io.read = "fail"

(***************************************************************************)
(* vhost_user_setup and the calls that follow it                           *)
(***************************************************************************)
\* vhost_user_setup has returned 0
SetupDone == setups > 0 /\ su.ret = 0

\* vhost_user_sock is running or has returned
InSock == pc \in {"write", "read_hdr", "read_payload", "sock_ret"}

\* C17: after a setup that succeeds in server mode the device holds a
\* listening descriptor and a peer descriptor of -1; until the owner installs
\* a peer descriptor every dispatch, of any kind, returns failure without
\* sending, receiving or opening a descriptor.  After a setup that succeeds in
\* client mode the peer descriptor is the connected socket and dispatches go
\* on to the send.
C17_ServerWaitsForPeer ==
  /\ [][(setups = 0 /\ setups' > 0 /\ su'.ret = 0 /\ dev.is_server) =>
          /\ dev'.vhostfd = -1
          /\ dev'.listenfd = su'.fd
          /\ su'.listens = 1
          /\ dev'.listenfd \in open']_vars
  /\ []((SetupDone /\ dev.is_server) =>
          /\ dev.listenfd = su.fd
          /\ dev.listenfd \in open)
  /\ []((dev.is_server /\ dev.vhostfd < 0 /\ InSock) =>
          /\ Returned
          /\ ret = -1
          /\ io.writes = 0
          /\ io.sendmsg = 0
          /\ io.recv = 0
          /\ io.opened = <<>>
          /\ open = io.open0)
  /\ []((SetupDone /\ ~dev.is_server) =>
          /\ su.connects = 1
          /\ dev.vhostfd = su.fd
          /\ dev.vhostfd \in open)
  /\ []((SetupDone /\ ~dev.is_server /\ Returned
           /\ req \in SupportedRequests \ {"VHOST_USER_SET_MEM_TABLE"}) =>
          /\ io.writes = 1
          /\ io.sendmsg >= 1
          /\ io.handed.msg.request = req)

\* a server that was set up and has no peer yet turned a memory table away
\* before it looked for the hugepage files
C17_Witness ==
  /\ SetupDone
  /\ dev.is_server
  /\ dev.vhostfd = -1
  /\ dev.listenfd \in open
  /\ Returned
  /\ req = "VHOST_USER_SET_MEM_TABLE"
  /\ proc.can_open
  /\ ret = -1
  /\ io.opened = <<>>

\* C18: a dispatch that succeeds has read exactly one whole reply, its
\* header and exactly the payload bytes the header declares, when the kind is
\* get-features or get-vring-base, and nothing otherwise; the reply is the
\* one to its own request.
C18_WholeReplyConsumed ==
  (Returned /\ ret = 0) =>
    IF req \in ReplyRequests
    THEN /\ io.read = "ok"
         /\ io.recv = 2
         /\ io.hdr_ret = VHOST_USER_HDR_SIZE
         /\ io.pay_calls = 1
         /\ msg.size.hi = 0
         /\ io.pay_ret = msg.size.lo
         /\ msg.size.lo \in {SizeofU64, SizeofVringState}
         /\ msg.request = req
    ELSE /\ io.recv = 0
         /\ io.read = "none"
         /\ io.hdr_ret = 0
         /\ io.pay_ret = 0

\* get-features succeeded on a reply of 12 + 8 bytes
C18_Witness ==
  /\ Returned
  /\ ret = 0
  /\ req = "VHOST_USER_GET_FEATURES"
  /\ io.hdr_ret = VHOST_USER_HDR_SIZE
  /\ io.pay_ret = SizeofU64
  /\ arg # arg0

\* the descriptors vhost_user_sock opened in this call
C19_Opened == {io.opened[i].fd : i \in 1..Len(io.opened)}

\* C19: vhost_user_sock closes only descriptors it opened itself.  The
\* descriptors the caller holds, those passed in a request included, and the
\* channel descriptor are open when it returns, on every path; for a kind
\* other than set-mem-table it opens and closes none.
C19_ClosesOnlyItsOwn ==
  /\ \A fd \in 0..CallerFd : fd \in open
  /\ dev.vhostfd >= 0 => dev.vhostfd \in open
  /\ InSock =>
       /\ io.open0 \subseteq open
       /\ io.closed \subseteq C19_Opened
       /\ io.closed \cap io.open0 = {}
       /\ \A i \in 1..Len(fds) :
            (fds[i] \in io.open0 /\ fds[i] \notin C19_Opened) => fds[i] \in open
       /\ req # "VHOST_USER_SET_MEM_TABLE" =>
            /\ open = io.open0
            /\ io.opened = <<>>
            /\ io.closed = {}

\* the caller's descriptor went out with set-vring-kick and is still open,
\* as is the channel
C19_Witness ==
  /\ Returned
  /\ ret = 0
  /\ req = "VHOST_USER_SET_VRING_KICK"
  /\ fds = <<CallerFd>>
  /\ CallerFd \in open
  /\ dev.vhostfd \in open

\* C20: when vhost_user_setup fails after it created the socket, the socket
\* is closed before it returns and neither dev->vhostfd nor dev->listenfd
\* refers to the closed socket; when it succeeds exactly one of the two is
\* the new socket, and the socket is open.
C20_NoStaleDescriptor ==
  setups > 0 =>
    /\ (su.ret < 0 /\ su.fd >= 0) =>
         /\ su.closed
         /\ dev.vhostfd # su.fd
         /\ dev.listenfd # su.fd
    /\ su.ret = 0 =>
         /\ su.fd \in open
         /\ (dev.vhostfd = su.fd) # (dev.listenfd = su.fd)

=============================================================================
